---- MODULE Spec2Model ----
(***************************************************************************)
(* Model of orderbook-server (src/src/lib.rs): the line codec, the         *)
(* matching engine task, the per-connection handler tasks, the mpsc        *)
(* mailbox and the broadcast channel that connect them.                    *)
(***************************************************************************)
EXTENDS Integers, Sequences, FiniteSets, TLC

VARIABLES
    orderbook,   \* OrderBook(HashMap<Commodity, i32>): a function on the keys inserted so far
    mailbox,     \* messages queued in the mpsc channel (tx -> rx)
    events,      \* every value the broadcast channel has stored, in order; the tail is Len(events)
    status,      \* per connection: "Unconnected" (not accepted yet), "Active", "Closed"
    pc,          \* per connection: where handle_connection stands: "select", "send", "ack"
    cur,         \* per connection: the Message parsed from the line being served
    next,        \* per connection: position of the broadcast receiver (events read or skipped)
    sub,         \* per connection: tail of the broadcast channel when it subscribed
    inq,         \* per connection: lines written by the client and not read yet
    eof,         \* per connection: the client has closed its sending half
    out,         \* per connection: lines written to the client socket, in order
    lagged,      \* per connection: the counts reported by RecvError::Lagged, in order
    rd,          \* history: per connection, the lines handle_connection has read
    enq,         \* history: every message sent into the mailbox, with the sending connection
    processed,   \* history: every message the engine consumed, with its outcome
    budget,      \* environment: number of lines the clients may still write
    inputs,      \* environment: the lines the clients choose from
    peers,       \* environment: the clients that connect
    line,        \* codec check: the line handed to Message::from_str
    parsed,      \* codec check: the result of Message::from_str, or NotParsed
    got,         \* history: per connection, the positions of the events written as TRADE lines
    engine,      \* the task of handle_orderbook: "Running", or "Panicked" once it has unwound
    overflow_checks  \* build: whether integer overflow panics (dev profile) or wraps (release)

vars == <<orderbook, mailbox, events, status, pc, cur, next, sub, inq, eof, out,
          lagged, rd, enq, processed, budget, inputs, peers, line, parsed,
          got, engine, overflow_checks>>

-----------------------------------------------------------------------------
(* Bounds *)

NumConns == 2
MaxLines == 2
LiveLines == 2
SoloLines == 3
LagLines == 2
FullLines == 1
BookLines == 4
BusyLines == 1
EdgeLines == 2
MaxLen == 5

(* Program constants *)

MailboxCap == 16
BroadcastCap == 16

Conns == 1..NumConns

-----------------------------------------------------------------------------
(* Protocol codec *)

Commodity == {"Apple", "Pear", "Tomato", "Potato", "Onion"}

Operation == {"Buy", "Sell"}

Message == [commodity : Commodity, operation : Operation]

ErrInvalid == "Invalid order command."
ErrOperation == "Operation not supported."
ErrCommodity == "Commodity not supported."

Ok(v) == [ok |-> TRUE, val |-> v]
Err(e) == [ok |-> FALSE, err |-> e]

\* A line is a sequence of chunks of text; the chunk ":" is the separator
\* character, every other chunk is a non-empty piece of text without ':'.
Chunks == {":", "BUY", "SELL", "APPLE", "PEAR", "TOMATO", "POTATO", "ONION", "asdf", "buy"}

RECURSIVE Concat(_)
Concat(s) == IF s = <<>> THEN "" ELSE Head(s) \o Concat(Tail(s))

\* str::split(':'): the fields between the separators, in order; a line
\* with n separators has n+1 fields, some of which may be empty.
RECURSIVE Split(_)
Split(l) ==
    IF \A i \in 1..Len(l) : l[i] # ":"
    THEN <<Concat(l)>>
    ELSE LET i == CHOOSE j \in 1..Len(l) :
                      l[j] = ":" /\ \A k \in 1..(j - 1) : l[k] # ":"
         IN <<Concat(SubSeq(l, 1, i - 1))>> \o Split(SubSeq(l, i + 1, Len(l)))

CommodityFromStr(s) ==
    CASE s = "APPLE" -> Ok("Apple")
      [] s = "PEAR" -> Ok("Pear")
      [] s = "TOMATO" -> Ok("Tomato")
      [] s = "POTATO" -> Ok("Potato")
      [] s = "ONION" -> Ok("Onion")
      [] OTHER -> Err(ErrCommodity)

CommodityDisplay(c) ==
    CASE c = "Apple" -> "APPLE"
      [] c = "Pear" -> "PEAR"
      [] c = "Tomato" -> "TOMATO"
      [] c = "Potato" -> "POTATO"
      [] c = "Onion" -> "ONION"

OperationFromStr(s) ==
    CASE s = "BUY" -> Ok("Buy")
      [] s = "SELL" -> Ok("Sell")
      [] OTHER -> Err(ErrOperation)

OperationDisplay(o) ==
    CASE o = "Buy" -> "buy"
      [] o = "Sell" -> "sell"

\* The same as MessageFromStr, with the commodity field parsed first.
MessageFromStrCommodityFirst(l) ==
    LET s == Split(l) IN
    IF Len(s) = 2 /\ s[1] # "" /\ s[2] # ""
    THEN LET op == OperationFromStr(s[1])
             cm == CommodityFromStr(s[2])
         IN IF ~cm.ok THEN Err(cm.err)
            ELSE IF ~op.ok THEN Err(op.err)
            ELSE Ok([commodity |-> cm.val, operation |-> op.val])
    ELSE Err(ErrInvalid)

MessageFromStr(l) ==
    LET s == Split(l) IN
    IF Len(s) = 2 /\ s[1] # "" /\ s[2] # ""
    THEN LET op == OperationFromStr(s[1])
             cm == CommodityFromStr(s[2])
         IN IF ~op.ok THEN Err(op.err)
            ELSE IF ~cm.ok THEN Err(cm.err)
            ELSE Ok([commodity |-> cm.val, operation |-> op.val])
    ELSE Err(ErrInvalid)

FormatAck(c) == "ACK:" \o CommodityDisplay(c)

FormatTrade(c) == "TRADE:" \o CommodityDisplay(c)

-----------------------------------------------------------------------------
(* Matching engine *)

\* The same as OrInsert, a new entry starting at 1.
OrInsertOne(book, c) ==
    [k \in (DOMAIN book) \cup {c} |-> IF k \in DOMAIN book THEN book[k] ELSE 1]

\* HashMap::entry(commodity).or_insert(0)
OrInsert(book, c) ==
    [k \in (DOMAIN book) \cup {c} |-> IF k \in DOMAIN book THEN book[k] ELSE 0]

\* The counter of a commodity, an absent entry counting as 0.
Counter(book, c) == IF c \in DOMAIN book THEN book[c] ELSE 0

\* The range of i32, the type of a counter.
MaxI32 == 2147483647
MinI32 == (-2147483647) - 1

\* x + d for d = 1 or d = -1 does not fit in i32.
Overflows(x, d) == (d = 1 /\ x = MaxI32) \/ (d = -1 /\ x = MinI32)

\* x + d in two's complement, what += and -= store when overflow is not checked.
WrappingAdd(x, d) ==
    IF Overflows(x, d) THEN (IF d = 1 THEN MinI32 ELSE MaxI32) ELSE x + d

\* *orders += d on the entry of c: with overflow checks the statement panics
\* before it stores anything, without them it stores the wrapped value.
AddAssign(b, c, d) ==
    IF Overflows(b[c], d) /\ overflow_checks
    THEN [book |-> b, panic |-> TRUE]
    ELSE [book |-> [b EXCEPT ![c] = WrappingAdd(b[c], d)], panic |-> FALSE]

\* The same as AddBuyOrder, a buy that brings the counter to 0 not trading.
AddBuyOrderStrict(book, c) ==
    LET r == AddAssign(OrInsert(book, c), c, 1)
    IN [book |-> r.book, panic |-> r.panic, trade |-> ~r.panic /\ r.book[c] < 0]

AddBuyOrder(book, c) ==
    LET r == AddAssign(OrInsert(book, c), c, 1)
    IN [book |-> r.book, panic |-> r.panic, trade |-> ~r.panic /\ r.book[c] <= 0]

\* The same as AddSellOrder, trading only when the counter comes back to 0.
AddSellOrderFlat(book, c) ==
    LET r == AddAssign(OrInsert(book, c), c, -1)
    IN [book |-> r.book, panic |-> r.panic, trade |-> ~r.panic /\ r.book[c] = 0]

AddSellOrder(book, c) ==
    LET r == AddAssign(OrInsert(book, c), c, -1)
    IN [book |-> r.book, panic |-> r.panic, trade |-> ~r.panic /\ r.book[c] >= 0]

\* The broadcast receivers alive: one per connection handler that has not returned.
Receivers == {c \in Conns : status[c] = "Active"}

\* The same as BroadcastSend, the send failing once a receiver has gone.
BroadcastSendAllAlive(ev, c) ==
    IF Receivers = {} \/ \E x \in Conns : status[x] = "Closed" THEN ev ELSE Append(ev, c)

\* broadcast::Sender::send: the value is stored only when a receiver exists.
BroadcastSend(ev, c) == IF Receivers = {} THEN ev ELSE Append(ev, c)

\* The same as MailboxRecv, taking the newest queued message instead.
MailboxRecvNewest(q) == [msg |-> q[Len(q)], rest |-> SubSeq(q, 1, Len(q) - 1)]

\* mpsc::Receiver::recv: takes the oldest queued message out of the channel.
MailboxRecv(q) == [msg |-> Head(q), rest |-> Tail(q)]

\* One iteration of the loop of handle_orderbook. A panic in the order book
\* unwinds the task: rx is dropped, which closes the mailbox and discards
\* what it still holds.
EngineStep ==
    /\ engine = "Running"
    /\ mailbox # <<>>
    /\ LET rcv == MailboxRecv(mailbox)
           msg == rcv.msg
       IN \E r \in {IF msg.operation = "Buy"
                    THEN AddBuyOrder(orderbook, msg.commodity)
                    ELSE AddSellOrder(orderbook, msg.commodity)} :
          LET ev == IF r.trade THEN BroadcastSend(events, msg.commodity) ELSE events
          IN /\ mailbox' = IF r.panic THEN <<>> ELSE rcv.rest
             /\ engine' = IF r.panic THEN "Panicked" ELSE "Running"
             /\ orderbook' = r.book
             /\ events' = ev
             /\ processed' = Append(processed,
                    [msg |-> msg, after |-> r.book[msg.commodity], trade |-> r.trade,
                     pos |-> IF ev # events THEN Len(ev) ELSE 0])
    /\ UNCHANGED <<status, pc, cur, next, sub, inq, eof, out, lagged, rd, enq,
                   budget, inputs, peers, line, parsed, got, overflow_checks>>

-----------------------------------------------------------------------------
(* Listener and clients *)

NoMessage == [commodity |-> "-", operation |-> "-"]

NotParsed == [ok |-> FALSE, err |-> "-"]

\* The lines a single client writes: the orders for two commodities and a
\* malformed line of each kind.
InputLines ==
    {<<"BUY", ":", "APPLE">>, <<"SELL", ":", "APPLE">>,
     <<"BUY", ":", "ONION">>, <<"SELL", ":", "ONION">>,
     <<"asdf", ":", "TOMATO">>, <<"BUY", ":", "asdf">>, <<"BUY", "TOMATO">>}

\* The lines several clients write: the orders for one commodity and a
\* malformed line.
SharedInputs ==
    {<<"BUY", ":", "APPLE">>, <<"SELL", ":", "APPLE">>, <<"asdf", ":", "TOMATO">>}

\* The orders for two commodities.
BookInputs ==
    {<<"BUY", ":", "APPLE">>, <<"SELL", ":", "APPLE">>,
     <<"BUY", ":", "ONION">>, <<"SELL", ":", "ONION">>}

\* The lines the clients write when progress is checked.
LiveInputs == {<<"BUY", ":", "APPLE">>, <<"SELL", ":", "APPLE">>}

\* The same as Accept, the new receiver starting at the oldest stored value.
AcceptReplay(c) ==
    /\ c \in peers
    /\ status[c] = "Unconnected"
    /\ status' = [status EXCEPT ![c] = "Active"]
    /\ next' = [next EXCEPT ![c] = IF Len(events) > BroadcastCap
                                   THEN Len(events) - BroadcastCap ELSE 0]
    /\ sub' = [sub EXCEPT ![c] = Len(events)]
    /\ UNCHANGED <<orderbook, mailbox, events, pc, cur, inq, eof, out, lagged, rd,
                   enq, processed, budget, inputs, peers, line, parsed,
                   got, engine, overflow_checks>>

\* run: listener.accept() returns, the handler is spawned with a fresh
\* subscription whose position is the current tail of the broadcast channel.
Accept(c) ==
    /\ c \in peers
    /\ status[c] = "Unconnected"
    /\ status' = [status EXCEPT ![c] = "Active"]
    /\ next' = [next EXCEPT ![c] = Len(events)]
    /\ sub' = [sub EXCEPT ![c] = Len(events)]
    /\ UNCHANGED <<orderbook, mailbox, events, pc, cur, inq, eof, out, lagged, rd,
                   enq, processed, budget, inputs, peers, line, parsed,
                   got, engine, overflow_checks>>

\* The client of connection c writes one line to its socket.
ClientWrite(c, l) ==
    /\ status[c] = "Active"
    /\ ~eof[c]
    /\ l \in inputs
    /\ budget > 0
    /\ inq' = [inq EXCEPT ![c] = Append(@, l)]
    /\ budget' = budget - 1
    /\ UNCHANGED <<orderbook, mailbox, events, status, pc, cur, next, sub, eof, out,
                   lagged, rd, enq, processed, inputs, peers, line, parsed,
                   got, engine, overflow_checks>>

\* The client of connection c closes its sending half.
ClientClose(c) ==
    /\ status[c] = "Active"
    /\ ~eof[c]
    /\ eof' = [eof EXCEPT ![c] = TRUE]
    /\ UNCHANGED <<orderbook, mailbox, events, status, pc, cur, next, sub, inq, out,
                   lagged, rd, enq, processed, budget, inputs, peers, line, parsed,
                   got, engine, overflow_checks>>

-----------------------------------------------------------------------------
(* Connection handler *)

\* select! is waiting on both sources.
Selecting(c) == status[c] = "Active" /\ pc[c] = "select"

\* The same as ReadLine, the handler returning after a line that does not parse.
ReadLineCloseOnError(c) ==
    /\ Selecting(c)
    /\ inq[c] # <<>>
    /\ LET l == Head(inq[c])
           msg == MessageFromStr(l)
       IN /\ inq' = [inq EXCEPT ![c] = Tail(@)]
          /\ rd' = [rd EXCEPT ![c] = Append(@, l)]
          /\ IF msg.ok
             THEN /\ cur' = [cur EXCEPT ![c] = msg.val]
                  /\ pc' = [pc EXCEPT ![c] = "send"]
                  /\ UNCHANGED <<out, status>>
             ELSE /\ out' = [out EXCEPT ![c] = Append(@, msg.err)]
                  /\ status' = [status EXCEPT ![c] = "Closed"]
                  /\ UNCHANGED <<cur, pc>>
    /\ UNCHANGED <<orderbook, mailbox, events, next, sub, eof, lagged, enq,
                   processed, budget, inputs, peers, line, parsed,
                   got, engine, overflow_checks>>

\* The same as ReadLine, the error line going to every connected client.
ReadLineErrorToAll(c) ==
    /\ Selecting(c)
    /\ inq[c] # <<>>
    /\ LET l == Head(inq[c])
           msg == MessageFromStr(l)
       IN /\ inq' = [inq EXCEPT ![c] = Tail(@)]
          /\ rd' = [rd EXCEPT ![c] = Append(@, l)]
          /\ IF msg.ok
             THEN /\ cur' = [cur EXCEPT ![c] = msg.val]
                  /\ pc' = [pc EXCEPT ![c] = "send"]
                  /\ out' = out
             ELSE /\ out' = [y \in Conns |->
                                IF status[y] = "Active" THEN Append(out[y], msg.err)
                                ELSE out[y]]
                  /\ UNCHANGED <<cur, pc>>
    /\ UNCHANGED <<orderbook, mailbox, events, status, next, sub, eof, lagged, enq,
                   processed, budget, inputs, peers, line, parsed,
                   got, engine, overflow_checks>>

\* lines.next_line() yields Ok(Some(msg)): parse it; an error is written
\* back at once, a Message is kept to be sent to the engine.
ReadLine(c) ==
    /\ Selecting(c)
    /\ inq[c] # <<>>
    /\ LET l == Head(inq[c])
           msg == MessageFromStr(l)
       IN /\ inq' = [inq EXCEPT ![c] = Tail(@)]
          /\ rd' = [rd EXCEPT ![c] = Append(@, l)]
          /\ IF msg.ok
             THEN /\ cur' = [cur EXCEPT ![c] = msg.val]
                  /\ pc' = [pc EXCEPT ![c] = "send"]
                  /\ out' = out
             ELSE /\ out' = [out EXCEPT ![c] = Append(@, msg.err)]
                  /\ UNCHANGED <<cur, pc>>
    /\ UNCHANGED <<orderbook, mailbox, events, status, next, sub, eof, lagged, enq,
                   processed, budget, inputs, peers, line, parsed,
                   got, engine, overflow_checks>>

\* The same as SendIntent, the handler going back to select! without an ACK.
SendIntentNoAck(c) ==
    /\ status[c] = "Active"
    /\ pc[c] = "send"
    /\ engine = "Panicked" \/ Len(mailbox) < MailboxCap
    /\ IF engine = "Panicked"
       THEN UNCHANGED <<mailbox, enq>>
       ELSE /\ mailbox' = Append(mailbox, cur[c])
            /\ enq' = Append(enq, [conn |-> c, msg |-> cur[c]])
    /\ pc' = [pc EXCEPT ![c] = "select"]
    /\ cur' = [cur EXCEPT ![c] = NoMessage]
    /\ UNCHANGED <<orderbook, events, status, next, sub, inq, eof, out, lagged,
                   rd, processed, budget, inputs, peers, line, parsed,
                   got, engine, overflow_checks>>

\* The same as SendIntent, a message that finds the mailbox full being given up
\* (try_send in place of send().await).
SendIntentDropWhenFull(c) ==
    /\ status[c] = "Active"
    /\ pc[c] = "send"
    /\ IF engine = "Panicked" \/ Len(mailbox) >= MailboxCap
       THEN UNCHANGED <<mailbox, enq>>
       ELSE /\ mailbox' = Append(mailbox, cur[c])
            /\ enq' = Append(enq, [conn |-> c, msg |-> cur[c]])
    /\ pc' = [pc EXCEPT ![c] = "ack"]
    /\ UNCHANGED <<orderbook, events, status, cur, next, sub, inq, eof, out, lagged,
                   rd, processed, budget, inputs, peers, line, parsed,
                   got, engine, overflow_checks>>

\* tx.send(msg).await completes once the mailbox has a free slot; once the
\* engine has dropped rx it returns Err at once, which the handler ignores.
SendIntent(c) ==
    /\ status[c] = "Active"
    /\ pc[c] = "send"
    /\ engine = "Panicked" \/ Len(mailbox) < MailboxCap
    /\ IF engine = "Panicked"
       THEN UNCHANGED <<mailbox, enq>>
       ELSE /\ mailbox' = Append(mailbox, cur[c])
            /\ enq' = Append(enq, [conn |-> c, msg |-> cur[c]])
    /\ pc' = [pc EXCEPT ![c] = "ack"]
    /\ UNCHANGED <<orderbook, events, status, cur, next, sub, inq, eof, out, lagged,
                   rd, processed, budget, inputs, peers, line, parsed,
                   got, engine, overflow_checks>>

\* writer.write_all("ACK:<commodity>\n"), then back to select!.
WriteAck(c) ==
    /\ status[c] = "Active"
    /\ pc[c] = "ack"
    /\ out' = [out EXCEPT ![c] = Append(@, FormatAck(cur[c].commodity))]
    /\ cur' = [cur EXCEPT ![c] = NoMessage]
    /\ pc' = [pc EXCEPT ![c] = "select"]
    /\ UNCHANGED <<orderbook, mailbox, events, status, next, sub, inq, eof, lagged,
                   rd, enq, processed, budget, inputs, peers, line, parsed,
                   got, engine, overflow_checks>>

\* lines.next_line() yields Ok(None): the handler returns.
ReadEof(c) ==
    /\ Selecting(c)
    /\ inq[c] = <<>>
    /\ eof[c]
    /\ status' = [status EXCEPT ![c] = "Closed"]
    /\ UNCHANGED <<orderbook, mailbox, events, pc, cur, next, sub, inq, eof, out,
                   lagged, rd, enq, processed, budget, inputs, peers, line, parsed,
                   got, engine, overflow_checks>>

\* lines.next_line() yields Err(e), a connection reset or any other I/O
\* error: the handler returns.
ReadError(c, kind) ==
    /\ Selecting(c)
    /\ kind \in {"ConnectionReset", "Other"}
    /\ status' = [status EXCEPT ![c] = "Closed"]
    /\ UNCHANGED <<orderbook, mailbox, events, pc, cur, next, sub, inq, eof, out,
                   lagged, rd, enq, processed, budget, inputs, peers, line, parsed,
                   got, engine, overflow_checks>>

\* The oldest position the broadcast channel still holds.
Oldest == IF Len(events) > BroadcastCap THEN Len(events) - BroadcastCap ELSE 0

\* The same as RecvLagged, the receiver skipping every stored value.
RecvLaggedSkipAll(c) ==
    /\ Selecting(c)
    /\ next[c] < Oldest
    /\ lagged' = [lagged EXCEPT ![c] = Append(@, Len(events) - next[c])]
    /\ next' = [next EXCEPT ![c] = Len(events)]
    /\ UNCHANGED <<orderbook, mailbox, events, status, pc, cur, sub, inq, eof, out,
                   rd, enq, processed, budget, inputs, peers, line, parsed,
                   got, engine, overflow_checks>>

\* The same as RecvTrade, select! polling the lines first and the receiver
\* only when no line is ready.
RecvTradeWhenIdle(c) ==
    /\ Selecting(c)
    /\ inq[c] = <<>>
    /\ next[c] < Len(events)
    /\ next[c] >= Oldest
    /\ out' = [out EXCEPT ![c] = Append(@, FormatTrade(events[next[c] + 1]))]
    /\ got' = [got EXCEPT ![c] = Append(@, next[c] + 1)]
    /\ next' = [next EXCEPT ![c] = @ + 1]
    /\ UNCHANGED <<orderbook, mailbox, events, status, pc, cur, sub, inq, eof, lagged,
                   rd, enq, processed, budget, inputs, peers, line, parsed,
                   engine, overflow_checks>>

\* The same as RecvTrade, the receiver not moving on past the value it read.
RecvTradeAgain(c) ==
    /\ Selecting(c)
    /\ next[c] < Len(events)
    /\ next[c] >= Oldest
    /\ out' = [out EXCEPT ![c] = Append(@, FormatTrade(events[next[c] + 1]))]
    /\ got' = [got EXCEPT ![c] = Append(@, next[c] + 1)]
    /\ UNCHANGED <<next, orderbook, mailbox, events, status, pc, cur, sub, inq, eof, lagged,
                   rd, enq, processed, budget, inputs, peers, line, parsed,
                   engine, overflow_checks>>

\* The same as RecvTrade, events being forwarded while the handler is still
\* to write the ACK of the line it is serving.
RecvTradeBeforeAck(c) ==
    /\ status[c] = "Active"
    /\ pc[c] \in {"select", "ack"}
    /\ next[c] < Len(events)
    /\ next[c] >= Oldest
    /\ out' = [out EXCEPT ![c] = Append(@, FormatTrade(events[next[c] + 1]))]
    /\ got' = [got EXCEPT ![c] = Append(@, next[c] + 1)]
    /\ next' = [next EXCEPT ![c] = @ + 1]
    /\ UNCHANGED <<orderbook, mailbox, events, status, pc, cur, sub, inq, eof, lagged,
                   rd, enq, processed, budget, inputs, peers, line, parsed,
                   engine, overflow_checks>>

\* The same as RecvTrade, the receiver outliving the return of its handler.
RecvTradeAfterReturn(c) ==
    /\ status[c] \in {"Active", "Closed"}
    /\ pc[c] = "select"
    /\ next[c] < Len(events)
    /\ next[c] >= Oldest
    /\ out' = [out EXCEPT ![c] = Append(@, FormatTrade(events[next[c] + 1]))]
    /\ got' = [got EXCEPT ![c] = Append(@, next[c] + 1)]
    /\ next' = [next EXCEPT ![c] = @ + 1]
    /\ UNCHANGED <<orderbook, mailbox, events, status, pc, cur, sub, inq, eof, lagged,
                   rd, enq, processed, budget, inputs, peers, line, parsed,
                   engine, overflow_checks>>

\* The same as RecvTrade, serving only a connection that has sent a line.
RecvTradeSendersOnly(c) ==
    /\ Selecting(c)
    /\ rd[c] # <<>>
    /\ next[c] < Len(events)
    /\ next[c] >= Oldest
    /\ out' = [out EXCEPT ![c] = Append(@, FormatTrade(events[next[c] + 1]))]
    /\ got' = [got EXCEPT ![c] = Append(@, next[c] + 1)]
    /\ next' = [next EXCEPT ![c] = @ + 1]
    /\ UNCHANGED <<orderbook, mailbox, events, status, pc, cur, sub, inq, eof, lagged,
                   rd, enq, processed, budget, inputs, peers, line, parsed,
                   engine, overflow_checks>>

\* confirm_rx.recv() yields Ok(c): write TRADE:<commodity>.
RecvTrade(c) ==
    /\ Selecting(c)
    /\ next[c] < Len(events)
    /\ next[c] >= Oldest
    /\ out' = [out EXCEPT ![c] = Append(@, FormatTrade(events[next[c] + 1]))]
    /\ got' = [got EXCEPT ![c] = Append(@, next[c] + 1)]
    /\ next' = [next EXCEPT ![c] = @ + 1]
    /\ UNCHANGED <<orderbook, mailbox, events, status, pc, cur, sub, inq, eof, lagged,
                   rd, enq, processed, budget, inputs, peers, line, parsed,
                   engine, overflow_checks>>

\* confirm_rx.recv() yields Err(Lagged(n)): the receiver skips to the
\* oldest retained value and the handler logs n.
RecvLagged(c) ==
    /\ Selecting(c)
    /\ next[c] < Oldest
    /\ lagged' = [lagged EXCEPT ![c] = Append(@, Oldest - next[c])]
    /\ next' = [next EXCEPT ![c] = Oldest]
    /\ UNCHANGED <<orderbook, mailbox, events, status, pc, cur, sub, inq, eof, out,
                   rd, enq, processed, budget, inputs, peers, line, parsed,
                   got, engine, overflow_checks>>

-----------------------------------------------------------------------------
(* The server *)

\* run before any connection: an empty order book, both channels empty, the
\* engine task spawned, no handler spawned.
Fresh ==
    /\ orderbook = <<>>
    /\ mailbox = <<>>
    /\ events = <<>>
    /\ status = [c \in Conns |-> "Unconnected"]
    /\ pc = [c \in Conns |-> "select"]
    /\ cur = [c \in Conns |-> NoMessage]
    /\ next = [c \in Conns |-> 0]
    /\ sub = [c \in Conns |-> 0]
    /\ inq = [c \in Conns |-> <<>>]
    /\ eof = [c \in Conns |-> FALSE]
    /\ out = [c \in Conns |-> <<>>]
    /\ lagged = [c \in Conns |-> <<>>]
    /\ rd = [c \in Conns |-> <<>>]
    /\ enq = <<>>
    /\ processed = <<>>
    /\ got = [c \in Conns |-> <<>>]
    /\ engine = "Running"

\* The server with two clients, which write orders for one commodity and
\* malformed lines.
Init ==
    /\ Fresh
    /\ budget = MaxLines
    /\ inputs = SharedInputs
    /\ peers = {1, 2}
    /\ line = <<>>
    /\ parsed = NotParsed
    /\ overflow_checks = TRUE

\* RecvLagged is not a step of Next: a receiver lags only once more than
\* BroadcastCap events are stored unread, which takes more client lines than
\* the line budgets of Init, SoloInit and LiveInit allow; LagNext has it.
Next ==
    \/ EngineStep
    \/ \E c \in Conns : Accept(c)
    \/ \E c \in Conns, l \in InputLines : ClientWrite(c, l)
    \/ \E c \in Conns : ClientClose(c)
    \/ \E c \in Conns : ReadLine(c)
    \/ \E c \in Conns : SendIntent(c)
    \/ \E c \in Conns : WriteAck(c)
    \/ \E c \in Conns : ReadEof(c)
    \/ \E c \in Conns, kind \in {"ConnectionReset", "Other"} : ReadError(c, kind)
    \/ \E c \in Conns : RecvTrade(c)

Spec == Init /\ [][Next]_vars

\* The server with a single client, which writes more lines.
SoloInit ==
    /\ Fresh
    /\ budget = SoloLines
    /\ inputs = InputLines
    /\ peers = {1}
    /\ line = <<>>
    /\ parsed = NotParsed
    /\ overflow_checks = TRUE

SoloSpec == SoloInit /\ [][Next]_vars

\* The server with a single client that writes orders only, and more of them.
BookInit ==
    /\ Fresh
    /\ budget = BookLines
    /\ inputs = BookInputs
    /\ peers = {1}
    /\ line = <<>>
    /\ parsed = NotParsed
    /\ overflow_checks = TRUE

BookSpec == BookInit /\ [][Next]_vars

\* The server after client 1 has written BUY:APPLE twice and then LagRounds
\* times SELL:APPLE, BUY:APPLE, its handler has served every line (select!
\* finding a line ready each time) and no event yet, and the engine has
\* consumed them all: LagRounds trades are stored, all unread by connection
\* 1, two buys are open, client 1 has closed its sending half (its handler has
\* not yet read the end of the stream) and client 2 has not connected.
LagRounds == BroadcastCap

LagWritten ==
    [i \in 1..(2 * LagRounds + 2) |->
        [commodity |-> "Apple",
         operation |-> IF i <= 2 \/ i % 2 = 0 THEN "Buy" ELSE "Sell"]]

LagInit ==
    /\ orderbook = [c \in {"Apple"} |-> 2]
    /\ mailbox = <<>>
    /\ events = [i \in 1..LagRounds |-> "Apple"]
    /\ status = [c \in Conns |-> IF c = 1 THEN "Active" ELSE "Unconnected"]
    /\ pc = [c \in Conns |-> "select"]
    /\ cur = [c \in Conns |-> NoMessage]
    /\ next = [c \in Conns |-> 0]
    /\ sub = [c \in Conns |-> 0]
    /\ inq = [c \in Conns |-> <<>>]
    /\ eof = [c \in Conns |-> c = 1]
    /\ out = [c \in Conns |->
                IF c = 1 THEN [i \in 1..Len(LagWritten) |-> FormatAck("Apple")] ELSE <<>>]
    /\ lagged = [c \in Conns |-> <<>>]
    /\ got = [c \in Conns |-> <<>>]
    /\ engine = "Running"
    /\ rd = [c \in Conns |->
               IF c = 1
               THEN [i \in 1..Len(LagWritten) |->
                        IF LagWritten[i].operation = "Buy"
                        THEN <<"BUY", ":", "APPLE">> ELSE <<"SELL", ":", "APPLE">>]
               ELSE <<>>]
    /\ enq = [i \in 1..Len(LagWritten) |-> [conn |-> 1, msg |-> LagWritten[i]]]
    /\ processed = [i \in 1..Len(LagWritten) |->
                [msg |-> LagWritten[i],
                 after |-> IF i = 1 \/ LagWritten[i].operation = "Sell" THEN 1 ELSE 2,
                 trade |-> LagWritten[i].operation = "Sell",
                 pos |-> IF LagWritten[i].operation = "Sell" THEN (i - 1) \div 2 ELSE 0]]
    /\ budget = LagLines
    /\ inputs = LiveInputs
    /\ peers = {1, 2}
    /\ line = <<>>
    /\ parsed = NotParsed
    /\ overflow_checks = TRUE

LagNext ==
    \/ Next
    \/ \E c \in Conns : RecvLagged(c)

LagSpec == LagInit /\ [][LagNext]_vars

\* The server after client 1 has written BUY:APPLE, SELL:APPLE and then
\* MailboxCap times BUY:APPLE, its handler has served every line, and the
\* engine has consumed the first two and not run since: the mailbox is full,
\* one trade is stored and unread by connection 1, and client 2 has not
\* connected.
FullWritten ==
    [i \in 1..(MailboxCap + 2) |->
        [commodity |-> "Apple", operation |-> IF i = 2 THEN "Sell" ELSE "Buy"]]

FullInit ==
    /\ orderbook = [c \in {"Apple"} |-> 0]
    /\ mailbox = SubSeq(FullWritten, 3, Len(FullWritten))
    /\ events = <<"Apple">>
    /\ status = [c \in Conns |-> IF c = 1 THEN "Active" ELSE "Unconnected"]
    /\ pc = [c \in Conns |-> "select"]
    /\ cur = [c \in Conns |-> NoMessage]
    /\ next = [c \in Conns |-> 0]
    /\ sub = [c \in Conns |-> 0]
    /\ inq = [c \in Conns |-> <<>>]
    /\ eof = [c \in Conns |-> FALSE]
    /\ out = [c \in Conns |->
                IF c = 1 THEN [i \in 1..Len(FullWritten) |-> FormatAck("Apple")] ELSE <<>>]
    /\ lagged = [c \in Conns |-> <<>>]
    /\ got = [c \in Conns |-> <<>>]
    /\ engine = "Running"
    /\ rd = [c \in Conns |->
               IF c = 1
               THEN [i \in 1..Len(FullWritten) |->
                        IF FullWritten[i].operation = "Buy"
                        THEN <<"BUY", ":", "APPLE">> ELSE <<"SELL", ":", "APPLE">>]
               ELSE <<>>]
    /\ enq = [i \in 1..Len(FullWritten) |-> [conn |-> 1, msg |-> FullWritten[i]]]
    /\ processed = <<[msg |-> FullWritten[1], after |-> 1, trade |-> FALSE, pos |-> 0],
                     [msg |-> FullWritten[2], after |-> 0, trade |-> TRUE, pos |-> 1]>>
    /\ budget = FullLines
    /\ inputs = LiveInputs
    /\ peers = {1, 2}
    /\ line = <<>>
    /\ parsed = NotParsed
    /\ overflow_checks = TRUE

FullSpec == FullInit /\ [][Next]_vars

\* The server with two clients and orders for one commodity, under the fairness the runtime
\* gives: while some task can run (the engine with a queued message, a handler
\* with a line or an event to serve or resuming after send or write), one of
\* them is run.
LiveInit ==
    /\ Fresh
    /\ budget = LiveLines
    /\ inputs = LiveInputs
    /\ peers = {1, 2}
    /\ line = <<>>
    /\ parsed = NotParsed
    /\ overflow_checks = TRUE

\* A step of the engine task or of a handler task that has work to do.
Progress ==
    \/ EngineStep
    \/ \E c \in Conns :
          ReadLine(c) \/ SendIntent(c) \/ WriteAck(c) \/ RecvTrade(c)

Fairness == WF_vars(Progress)

LiveSpec == LiveInit /\ [][Next]_vars /\ Fairness

\* The server once the APPLE counter has come to an end of the range of i32,
\* or next to it, through buys alone or sells alone (none of which traded) of
\* connections that have all returned since; the histories and the
\* connections are those from here on. The build is either one.
EdgeCounters == {MaxI32 - 1, MaxI32, MinI32 + 1, MinI32}

EdgeInit ==
    /\ orderbook \in {[c \in {"Apple"} |-> v] : v \in EdgeCounters}
    /\ mailbox = <<>>
    /\ events = <<>>
    /\ status = [c \in Conns |-> "Unconnected"]
    /\ pc = [c \in Conns |-> "select"]
    /\ cur = [c \in Conns |-> NoMessage]
    /\ next = [c \in Conns |-> 0]
    /\ sub = [c \in Conns |-> 0]
    /\ inq = [c \in Conns |-> <<>>]
    /\ eof = [c \in Conns |-> FALSE]
    /\ out = [c \in Conns |-> <<>>]
    /\ lagged = [c \in Conns |-> <<>>]
    /\ got = [c \in Conns |-> <<>>]
    /\ engine = "Running"
    /\ rd = [c \in Conns |-> <<>>]
    /\ enq = <<>>
    /\ processed = <<>>
    /\ budget = EdgeLines
    /\ inputs = LiveInputs
    /\ peers = {1}
    /\ line = <<>>
    /\ parsed = NotParsed
    /\ overflow_checks \in BOOLEAN

EdgeSpec == EdgeInit /\ [][Next]_vars

\* The server after client 1 has written BUY:APPLE and SELL:APPLE, its handler
\* has served both lines and the engine has consumed them: one trade is
\* stored, not yet read by connection 1, and no other client has connected
\* yet. Run under the same fairness as LiveSpec.
BusyWritten ==
    <<[commodity |-> "Apple", operation |-> "Buy"],
      [commodity |-> "Apple", operation |-> "Sell"]>>

BusyInit ==
    /\ orderbook = [c \in {"Apple"} |-> 0]
    /\ mailbox = <<>>
    /\ events = <<"Apple">>
    /\ status = [c \in Conns |-> IF c = 1 THEN "Active" ELSE "Unconnected"]
    /\ pc = [c \in Conns |-> "select"]
    /\ cur = [c \in Conns |-> NoMessage]
    /\ next = [c \in Conns |-> 0]
    /\ sub = [c \in Conns |-> 0]
    /\ inq = [c \in Conns |-> <<>>]
    /\ eof = [c \in Conns |-> FALSE]
    /\ out = [c \in Conns |->
                IF c = 1 THEN <<FormatAck("Apple"), FormatAck("Apple")>> ELSE <<>>]
    /\ lagged = [c \in Conns |-> <<>>]
    /\ got = [c \in Conns |-> <<>>]
    /\ engine = "Running"
    /\ rd = [c \in Conns |->
               IF c = 1 THEN <<<<"BUY", ":", "APPLE">>, <<"SELL", ":", "APPLE">>>> ELSE <<>>]
    /\ enq = [i \in 1..2 |-> [conn |-> 1, msg |-> BusyWritten[i]]]
    /\ processed = <<[msg |-> BusyWritten[1], after |-> 1, trade |-> FALSE, pos |-> 0],
                     [msg |-> BusyWritten[2], after |-> 0, trade |-> TRUE, pos |-> 1]>>
    /\ budget = BusyLines
    /\ inputs = SharedInputs
    /\ peers = Conns
    /\ line = <<>>
    /\ parsed = NotParsed
    /\ overflow_checks = TRUE

BusySpec == BusyInit /\ [][Next]_vars /\ Fairness

-----------------------------------------------------------------------------
(* The codec on its own: Message::from_str applied to one line *)

AllLines == UNION {[1..n -> Chunks] : n \in 0..MaxLen}

ParseInit ==
    /\ Fresh
    /\ budget = 0
    /\ inputs = {}
    /\ peers = {}
    /\ line \in AllLines
    /\ parsed = NotParsed
    /\ overflow_checks = TRUE

Parse ==
    /\ parsed = NotParsed
    /\ parsed' = MessageFromStr(line)
    /\ UNCHANGED <<orderbook, mailbox, events, status, pc, cur, next, sub, inq, eof,
                   out, lagged, rd, enq, processed, budget, inputs, peers, line,
                   got, engine, overflow_checks>>

ParseNext == Parse

ParseSpec == ParseInit /\ [][ParseNext]_vars

-----------------------------------------------------------------------------
(* Properties *)

\* The messages of a history, in order.
Msgs(h) == [i \in 1..Len(h) |-> h[i].msg]

\* The engine consumes a message in this step.
Consumes == Len(processed') = Len(processed) + 1

\* The outcome of the message consumed in this step.
Outcome == processed'[Len(processed')]

\* Number of messages with operation o on commodity cm the engine has consumed.
Consumed(o, cm) ==
    Cardinality({i \in 1..Len(processed) :
        processed[i].msg = [commodity |-> cm, operation |-> o]})

\* C1: processing a Buy at counter c sets the counter to c+1 and fires a trade
\* iff c+1 <= 0; processing a Sell sets it to c-1 and fires a trade iff
\* c-1 >= 0; a Buy at c >= 0 and a Sell at c <= 0 never fire a trade. A fired
\* trade is what the engine hands to the broadcast channel.
CrossingRule ==
    [][Consumes =>
        LET msg == Head(mailbox)
            cm == msg.commodity
            c == Counter(orderbook, cm)
        IN /\ Outcome.msg = msg
           /\ msg.operation = "Buy" =>
                /\ Counter(orderbook', cm) = c + 1
                /\ Outcome.trade <=> (c + 1 <= 0)
                /\ c >= 0 => ~Outcome.trade
           /\ msg.operation = "Sell" =>
                /\ Counter(orderbook', cm) = c - 1
                /\ Outcome.trade <=> (c - 1 >= 0)
                /\ c <= 0 => ~Outcome.trade
           /\ Outcome.after = Counter(orderbook', cm)
           /\ events' = IF Outcome.trade /\ Receivers # {}
                        THEN Append(events, cm) ELSE events
    ]_vars

CrossingRuleWitness ==
    \E i, j \in 1..Len(processed) :
        /\ processed[i].msg.operation = "Buy" /\ processed[i].trade
        /\ processed[j].msg.operation = "Sell" /\ ~processed[j].trade

\* C2: for every commodity the counter (absent = 0) equals the Buys minus the
\* Sells the engine has consumed for it, and a counter changes only in a step
\* in which the engine consumes a message.
CounterIsNetInterest ==
    /\ [](\A cm \in Commodity :
            Counter(orderbook, cm) = Consumed("Buy", cm) - Consumed("Sell", cm))
    /\ [][orderbook' # orderbook => Consumes]_vars

CounterIsNetInterestWitness ==
    /\ Consumed("Buy", "Apple") = 2
    /\ Consumed("Sell", "Onion") = 1
    /\ orderbook = [c \in {"Apple", "Onion"} |-> IF c = "Apple" THEN 2 ELSE -1]

\* Kinds of lines written to a client.
IsAck(x) == x \in {FormatAck(k) : k \in Commodity}
IsTrade(x) == x \in {FormatTrade(k) : k \in Commodity}
IsError(x) == x \in {ErrInvalid, ErrOperation, ErrCommodity}

AckLines(o) == SelectSeq(o, IsAck)
TradeLines(o) == SelectSeq(o, IsTrade)

Front(q) == SubSeq(q, 1, Len(q) - 1)

\* The Messages of the lines of ls that parse, in order.
ValidMsgs(ls) ==
    LET v == SelectSeq(ls, LAMBDA l : MessageFromStr(l).ok)
    IN [i \in 1..Len(v) |-> MessageFromStr(v[i]).val]

\* The Messages connection c has sent into the mailbox, in order.
SentBy(c) ==
    LET e == SelectSeq(enq, LAMBDA x : x.conn = c)
    IN [i \in 1..Len(e) |-> e[i].msg]

\* Trades need a Buy and a Sell each: the most that LiveLines lines can fire.
MaxTrades == LiveLines \div 2

\* Event number p of the broadcast channel has reached the client of c, as
\* the TRADE line that comes (p - sub[c])-th among its TRADE lines.
Delivered(c, p) ==
    /\ p > sub[c]
    /\ Len(TradeLines(out[c])) >= p - sub[c]
    /\ TradeLines(out[c])[p - sub[c]] = FormatTrade(events[p])

\* C3: when a trade fires while connections are subscribed, each of them that
\* stays Active and does not lag is eventually written the TRADE line of that
\* trade, and exactly once: its TRADE lines are, one for one and in order, the
\* events stored since it subscribed up to its receiver's position.
FanOut ==
    /\ [](\A c \in Conns : lagged[c] = <<>> =>
            TradeLines(out[c]) =
                [i \in 1..(next[c] - sub[c]) |-> FormatTrade(events[sub[c] + i])])
    /\ \A c \in Conns : \A p \in 1..MaxTrades :
          (status[c] = "Active" /\ sub[c] < p /\ p <= Len(events))
              ~> (status[c] = "Closed" \/ lagged[c] # <<>> \/ Delivered(c, p))

\* A trade has reached both connections, the one that triggered it and one
\* that never sent a line.
FanOutWitness ==
    /\ Len(events) = 1
    /\ \A c \in peers : status[c] = "Active" /\ sub[c] = 0 /\ Delivered(c, 1)
    /\ \E c \in peers : rd[c] = <<>>

\* C4: for every line that parses, the handler enqueues exactly one Intent with
\* the line's operation and commodity, then writes exactly one ACK for its
\* commodity, the enqueue coming first, and the connection stays Active; the
\* ACK is eventually written: again and again the connection has as many ACK
\* lines as valid lines read, and neither number ever goes down.
AckAfterEnqueue ==
    /\ [](\A c \in Conns :
            LET valid == ValidMsgs(rd[c])
                sent == SentBy(c)
                acked == IF pc[c] = "ack" THEN Front(sent) ELSE sent
            IN /\ sent = IF pc[c] = "send" THEN Front(valid) ELSE valid
               /\ AckLines(out[c]) = [i \in 1..Len(acked) |-> FormatAck(acked[i].commodity)]
               /\ pc[c] # "select" => status[c] = "Active")
    /\ [][\A c \in Conns :
            Len(AckLines(out'[c])) > Len(AckLines(out[c])) =>
                status'[c] = "Active" /\ pc'[c] = "select"]_vars
    /\ \A c \in Conns : []<>(Len(AckLines(out[c])) = Len(ValidMsgs(rd[c])))

AckAfterEnqueueWitness ==
    \E c \in Conns :
        /\ rd[c] = <<<<"SELL", ":", "APPLE">>>>
        /\ enq = <<[conn |-> c, msg |-> [commodity |-> "Apple", operation |-> "Sell"]]>>
        /\ out[c] = <<"ACK:APPLE">>
        /\ Selecting(c)

\* Connection c reads a line that does not parse in this step.
ReadsMalformed(c) ==
    /\ inq[c] # <<>>
    /\ rd'[c] = Append(rd[c], Head(inq[c]))
    /\ ~MessageFromStr(Head(inq[c])).ok

\* C5: for a line that fails to parse the handler writes exactly one of the
\* three error lines to that client and no ACK, enqueues no Intent, leaves
\* every counter as it is, and the connection stays Active, waiting for the
\* next line.
MalformedLineAnswered ==
    [][\A c \in Conns : ReadsMalformed(c) =>
        /\ \E e \in {"Invalid order command.", "Operation not supported.",
                     "Commodity not supported."} : out'[c] = Append(out[c], e)
        /\ AckLines(out'[c]) = AckLines(out[c])
        /\ mailbox' = mailbox
        /\ enq' = enq
        /\ orderbook' = orderbook
        /\ status'[c] = "Active"
        /\ pc'[c] = "select"
    ]_vars

\* A malformed line was answered and a later line of the same client served.
MalformedLineAnsweredWitness ==
    \E c \in Conns :
        /\ Len(out[c]) >= 2
        /\ out[c][1] = "Operation not supported."
        /\ IsAck(out[c][2])
        /\ Len(rd[c]) = 2

\* The wire names of the operations and of the commodities.
WireOperation == [Buy |-> "BUY", Sell |-> "SELL"]
WireCommodity ==
    [Apple |-> "APPLE", Pear |-> "PEAR", Tomato |-> "TOMATO", Potato |-> "POTATO",
     Onion |-> "ONION"]

\* The positions of the separator in a line.
Colons(l) == {i \in 1..Len(l) : l[i] = ":"}

\* Splitting the line on ':' gives exactly two fields, both non-empty.
TwoFields(l) ==
    /\ Cardinality(Colons(l)) = 1
    /\ l[1] # ":"
    /\ l[Len(l)] # ":"

FirstField(l) == Concat(SubSeq(l, 1, (CHOOSE i \in Colons(l) : TRUE) - 1))
SecondField(l) == Concat(SubSeq(l, (CHOOSE i \in Colons(l) : TRUE) + 1, Len(l)))

\* C6: parse answers with the first failing check: not exactly two non-empty
\* fields gives InvalidCommand; else a first field that is not BUY or SELL
\* gives UnsupportedOperation, whatever the second field; else a second field
\* that is not one of the five commodity names gives UnsupportedCommodity;
\* else the Intent the two fields name, so OP:COMMODITY parses back to
\* (op, commodity) for each of the 2x5 pairs.
ParseClassifies ==
    parsed # NotParsed =>
        /\ IF ~TwoFields(line)
           THEN parsed = Err("Invalid order command.")
           ELSE IF \A o \in Operation : WireOperation[o] # FirstField(line)
           THEN parsed = Err("Operation not supported.")
           ELSE IF \A c \in Commodity : WireCommodity[c] # SecondField(line)
           THEN parsed = Err("Commodity not supported.")
           ELSE \E o \in Operation, c \in Commodity :
                   /\ WireOperation[o] = FirstField(line)
                   /\ WireCommodity[c] = SecondField(line)
                   /\ parsed = Ok([commodity |-> c, operation |-> o])
        /\ \A o \in Operation, c \in Commodity :
              line = <<WireOperation[o], ":", WireCommodity[c]>> =>
                  parsed = Ok([commodity |-> c, operation |-> o])

\* A line whose operation and commodity are both unknown.
ParseClassifiesWitness ==
    /\ line = <<"asdf", ":", "asdf">>
    /\ parsed = Err("Operation not supported.")

\* C7: Scenario A: on a fresh engine BUY:APPLE, BUY:APPLE, SELL:APPLE give
\* the APPLE counter the values 1, 2, 1; the two buys fire no trade and the
\* sell fires one.
ScenarioA ==
    LET buy == MessageFromStr(<<"BUY", ":", "APPLE">>).val
        sell == MessageFromStr(<<"SELL", ":", "APPLE">>).val
        scenario == <<buy, buy, sell>>
        counter == <<1, 2, 1>>
        trade == <<FALSE, FALSE, TRUE>>
    IN \A k \in 1..3 :
          (Len(processed) >= k /\ \A i \in 1..k : processed[i].msg = scenario[i]) =>
              /\ processed[k].after = counter[k]
              /\ processed[k].trade = trade[k]
              /\ Len(processed) = k =>
                    /\ orderbook = [c \in {"Apple"} |-> counter[k]]
                    /\ Cardinality({i \in 1..k : processed[i].trade}) = IF k = 3 THEN 1 ELSE 0
                    /\ Len(events) <= IF k = 3 THEN 1 ELSE 0

ScenarioAWitness ==
    /\ Len(processed) = 3
    /\ Msgs(processed) = <<[commodity |-> "Apple", operation |-> "Buy"],
                           [commodity |-> "Apple", operation |-> "Buy"],
                           [commodity |-> "Apple", operation |-> "Sell"]>>
    /\ events = <<"Apple">>

\* The client of connection c writes a line that does not parse in this step.
WritesMalformed(c) ==
    /\ Len(inq'[c]) = Len(inq[c]) + 1
    /\ ~MessageFromStr(inq'[c][Len(inq'[c])]).ok

\* The lines of ls that do not parse.
Malformed(ls) == SelectSeq(ls, LAMBDA l : ~MessageFromStr(l).ok)

\* C8: a malformed line on connection X changes nothing but X's own input and
\* output: writing it and serving it leave every other connection's lines,
\* position and state, every counter, the mailbox and the broadcast channel
\* as they are, so that what another connection Y is written and the counter
\* values are the same with and without the malformed lines of X; X's error
\* lines go to X alone.
Isolation ==
    /\ [][\A x \in Conns : (ReadsMalformed(x) \/ WritesMalformed(x)) =>
            /\ \A y \in Conns \ {x} :
                  /\ out'[y] = out[y]
                  /\ status'[y] = status[y] /\ pc'[y] = pc[y] /\ cur'[y] = cur[y]
                  /\ next'[y] = next[y] /\ sub'[y] = sub[y]
                  /\ inq'[y] = inq[y] /\ eof'[y] = eof[y] /\ rd'[y] = rd[y]
            /\ AckLines(out'[x]) = AckLines(out[x])
            /\ TradeLines(out'[x]) = TradeLines(out[x])
            /\ UNCHANGED <<orderbook, mailbox, events, enq, processed, status, pc, cur,
                           next, sub>>
      ]_vars
    /\ [](\A y \in Conns : Len(SelectSeq(out[y], IsError)) = Len(Malformed(rd[y])))

\* X has been answered for a malformed line while the order of Y was
\* acknowledged and counted.
IsolationWitness ==
    \E x, y \in Conns :
        /\ x # y
        /\ out[x] = <<"Operation not supported.">>
        /\ out[y] = <<"ACK:APPLE">>
        /\ orderbook = [c \in {"Apple"} |-> -1]

\* Another connection than y has closed.
Gone(y) == \E x \in Conns \ {y} : status[x] = "Closed"

\* Number of messages of connection c the engine has consumed.
ConsumedFrom(c) == Cardinality({i \in 1..Len(processed) : enq[i].conn = c})

\* The net interest in the commodity of the i-th consumed message before it.
NetBefore(i) ==
    LET cm == processed[i].msg.commodity
    IN Cardinality({j \in 1..(i - 1) :
            processed[j].msg = [commodity |-> cm, operation |-> "Buy"]})
       - Cardinality({j \in 1..(i - 1) :
            processed[j].msg = [commodity |-> cm, operation |-> "Sell"]})

\* C9: once a connection has closed, a valid line of another Active
\* connection is still enqueued, acknowledged and consumed by the engine, the
\* trade decision is the crossing rule's, a fired trade is stored in the
\* broadcast channel while a subscriber remains, and it is delivered to the
\* subscribers that remain; the mailbox holds the Intents not yet consumed
\* and nothing else, no slot staying with a closed connection. The eventual
\* parts are stated as what holds again and again once a connection has
\* closed: every valid line read by another connection is acknowledged and
\* consumed, and every stored event has reached it while it is Active and has
\* not lagged; the lines read, the ACKs, the messages consumed and the events
\* never go down in number.
SurvivesDisconnect ==
    /\ \A y \in Conns :
          []<>(Gone(y) =>
                 /\ Len(AckLines(out[y])) = Len(ValidMsgs(rd[y]))
                 /\ ConsumedFrom(y) = Len(ValidMsgs(rd[y]))
                 /\ \/ status[y] # "Active"
                    \/ lagged[y] # <<>>
                    \/ \A p \in (sub[y] + 1)..Len(events) : Delivered(y, p))
    /\ [](\A i \in 1..Len(processed) :
            processed[i].trade <=>
                IF processed[i].msg.operation = "Buy"
                THEN NetBefore(i) + 1 <= 0 ELSE NetBefore(i) - 1 >= 0)
    /\ [](Len(mailbox) = Len(enq) - Len(processed) /\ Len(mailbox) <= MailboxCap)
    /\ [][(/\ Consumes
           /\ Outcome.trade
           /\ \E x \in Conns : status[x] = "Closed"
           /\ \E y \in Conns : status[y] = "Active")
          => events' = Append(events, Head(mailbox).commodity)]_vars

\* A trade fired after a connection had closed without reading it, and the
\* remaining connection was acknowledged and notified.
SurvivesDisconnectWitness ==
    \E x, y \in Conns :
        /\ x # y
        /\ status[x] = "Closed" /\ sub[x] = 0 /\ next[x] = 0 /\ out[x] = <<"ACK:APPLE">>
        /\ status[y] = "Active"
        /\ out[y] = <<"ACK:APPLE", "TRADE:APPLE">>
        /\ Len(processed) = 2 /\ processed[2].trade

\* The Messages of connection c among the first n sent into the mailbox.
FirstSentBy(c, n) ==
    LET e == SelectSeq(SubSeq(enq, 1, n), LAMBDA x : x.conn = c)
    IN [i \in 1..Len(e) |-> e[i].msg]

IsPrefix(a, b) == Len(a) <= Len(b) /\ a = SubSeq(b, 1, Len(a))

\* C10: the engine consumes the Intents one at a time, in the order in which
\* they were enqueued, each exactly once: the consumed Intents followed by the
\* queued ones are the enqueued ones; so the consumed Intents of a connection
\* are, in order, those of the lines it read first.
FifoOnce ==
    /\ [](Msgs(processed) \o mailbox = Msgs(enq))
    /\ [](\A c \in Conns :
            IsPrefix(FirstSentBy(c, Len(processed)), ValidMsgs(rd[c])))
    /\ [][/\ Len(processed') <= Len(processed) + 1
          /\ Consumes => (Outcome.msg = Head(mailbox) /\ mailbox' = Tail(mailbox))
         ]_vars

\* Two different Intents of two connections were enqueued and the first has
\* been consumed.
FifoOnceWitness ==
    /\ Len(enq) = 2
    /\ enq[1].conn # enq[2].conn
    /\ enq[1].msg # enq[2].msg
    /\ Len(processed) = 1
    /\ Len(mailbox) = 1

\* The sum of a sequence of numbers.
RECURSIVE SumSeq(_)
SumSeq(q) == IF q = <<>> THEN 0 ELSE Head(q) + SumSeq(Tail(q))

\* The events stored and not yet read or skipped by the receiver of c.
Unread(c) == Len(events) - next[c]

\* The receiver of c reports a lag in this step.
LagStep(c) == lagged'[c] # lagged[c]

\* The handler of c writes a TRADE line in this step.
TradeStep(c) == got'[c] # got[c]

\* C11: a subscriber whose unread events exceed the broadcast capacity of 16
\* loses exactly the oldest unread events beyond the 16 retained, is told
\* their number, stays Active and next receives the oldest retained event and
\* then the later ones; the engine's step never waits for a subscriber and a
\* fired trade is stored at once however far behind the subscribers are; a
\* subscriber with at most 16 unread events is never reported a lag and is
\* served the very next event, whatever the lag of another subscriber.
LagLosesOldest ==
    /\ [][\A c \in Conns :
            /\ LagStep(c) =>
                  LET n == Unread(c) - 16 IN
                  /\ n > 0
                  /\ lagged'[c] = Append(lagged[c], n)
                  /\ next'[c] = next[c] + n
                  /\ status'[c] = "Active" /\ pc'[c] = "select"
                  /\ UNCHANGED <<out, got, events, mailbox, orderbook>>
                  /\ \A y \in Conns \ {c} :
                        next'[y] = next[y] /\ lagged'[y] = lagged[y] /\ status'[y] = status[y]
            /\ TradeStep(c) =>
                  /\ Unread(c) <= 16
                  /\ got'[c] = Append(got[c], next[c] + 1)
                  /\ out'[c] = Append(out[c], FormatTrade(events[next[c] + 1]))
                  /\ next'[c] = next[c] + 1
                  /\ lagged' = lagged
          ]_vars
    /\ [][(Consumes /\ Outcome.trade /\ Receivers # {})
            => events' = Append(events, Head(mailbox).commodity)]_vars
    /\ [](mailbox # <<>> => ENABLED EngineStep)
    /\ [](\A c \in Conns :
            /\ Len(got[c]) + SumSeq(lagged[c]) = next[c] - sub[c]
            /\ (Selecting(c) /\ Unread(c) > 16) => ENABLED RecvLagged(c)
            /\ (Selecting(c) /\ Unread(c) \in 1..16) => ENABLED RecvTrade(c)
            /\ lagged[c] = <<>> => got[c] = [i \in 1..(next[c] - sub[c]) |-> sub[c] + i])

\* Connection 1 fell 17 events behind, was told it lost one, and has since
\* been written the 16 retained events, while connection 2, which subscribed late and kept up, was
\* written that event without any loss.
LagLosesOldestWitness ==
    /\ lagged[1] = <<1>>
    /\ status[1] = "Active"
    /\ got[1] = [i \in 1..16 |-> i + 1]
    /\ lagged[2] = <<>>
    /\ got[2] = <<17>>

\* The handler of c is forwarding an Intent and the mailbox is full.
Suspended(c) == status[c] = "Active" /\ pc[c] = "send" /\ Len(mailbox) >= 16

\* C12: the mailbox never holds more than 16 Intents; a handler that forwards
\* an Intent while the mailbox is full stays at that point, writing nothing,
\* reading no line and serving no event, and can only leave it after the
\* engine has freed a slot; it leaves it by enqueuing that very Intent; and
\* whenever a handler is so suspended the engine can take a step, as it can
\* whenever the mailbox is not empty.
Backpressure ==
    /\ [](Len(mailbox) <= 16)
    /\ [][\A c \in Conns :
            /\ Suspended(c) =>
                  /\ pc'[c] = "send" /\ status'[c] = "Active" /\ cur'[c] = cur[c]
                  /\ out'[c] = out[c] /\ rd'[c] = rd[c] /\ inq'[c] \in {inq[c]} \cup {Append(inq[c], l) : l \in inputs}
                  /\ next'[c] = next[c] /\ got'[c] = got[c] /\ lagged'[c] = lagged[c]
                  /\ SentBy(c)' = SentBy(c)
            /\ (pc[c] = "send" /\ pc'[c] # "send") =>
                  /\ Len(mailbox) < 16
                  /\ cur[c] \in Message
                  /\ mailbox' = Append(mailbox, cur[c])
                  /\ enq' = Append(enq, [conn |-> c, msg |-> cur[c]])
                  /\ pc'[c] = "ack" /\ out'[c] = out[c]
          ]_vars
    /\ [](mailbox # <<>> => ENABLED EngineStep)
    /\ [](\A c \in Conns : (status[c] = "Active" /\ pc[c] = "send") =>
            IF Len(mailbox) >= 16 THEN ENABLED EngineStep ELSE ENABLED SendIntent(c))

\* Connection 1 is suspended with a line read, a trade event pending and the
\* mailbox full.
BackpressureWitness ==
    /\ Suspended(1)
    /\ Len(mailbox) = 16
    /\ Len(rd[1]) = 19
    /\ Len(AckLines(out[1])) = 18
    /\ next[1] < Len(events)

\* Connection c is accepted in this step.
Accepted(c) == status[c] = "Unconnected" /\ status'[c] = "Active"

\* The trades the engine has fired that the broadcast channel stored.
StoredTrades == {i \in 1..Len(processed) : processed[i].pos > 0}

\* C13: a connection is subscribed in the step that accepts it, at the end of
\* what the broadcast channel holds: every trade fired before lies at or
\* before its subscription point, and every TRADE line it is ever written is
\* for an event stored after that point, so its TRADE lines never outnumber
\* the trades fired since it was accepted.
FutureEventsOnly ==
    /\ [][\A c \in Conns : Accepted(c) =>
            /\ sub'[c] = Len(events) /\ next'[c] = Len(events)
            /\ events' = events
            /\ out'[c] = <<>> /\ got'[c] = <<>>
            /\ \A i \in StoredTrades : processed[i].pos <= sub'[c]
          ]_vars
    /\ [][\A c \in Conns : sub'[c] # sub[c] => Accepted(c)]_vars
    /\ [](\A c \in Conns :
            /\ \A i \in 1..Len(got[c]) :
                  /\ got[c][i] > sub[c]
                  /\ \E j \in StoredTrades : processed[j].pos = got[c][i]
            /\ Len(TradeLines(out[c])) = Len(got[c])
            /\ Len(TradeLines(out[c])) <= Len(events) - sub[c]
            /\ status[c] = "Unconnected" => out[c] = <<>>)

\* Connection 2 was accepted after 16 trades had fired and has been written
\* the two trades fired since, and no other.
FutureEventsOnlyWitness ==
    /\ sub[2] = 16
    /\ Len(events) = 18
    /\ got[2] = <<17, 18>>
    /\ TradeLines(out[2]) = <<"TRADE:APPLE", "TRADE:APPLE">>

\* The outcomes of two buys followed by two sells of commodity cm on a fresh
\* engine are the counter values 1, 2, 1, 0 and the trade decisions trade.
BuyBuySellSell(cm, trade) ==
    LET buy == [commodity |-> cm, operation |-> "Buy"]
        sell == [commodity |-> cm, operation |-> "Sell"]
        scenario == <<buy, buy, sell, sell>>
        counter == <<1, 2, 1, 0>>
    IN \A k \in 1..4 :
          (Len(processed) >= k /\ \A i \in 1..k : processed[i].msg = scenario[i]) =>
              /\ processed[k].after = counter[k]
              /\ processed[k].trade = trade[k]
              /\ Len(processed) = k =>
                    /\ Counter(orderbook, cm) = counter[k]
                    /\ Len(events) <= Cardinality({i \in 1..k : trade[i]})

\* C14: on a fresh engine, two buys followed by two sells of the same
\* commodity trade on both sells: the counter goes 1, 2, 1, 0, the first sell
\* brings it to 1 and the second to 0, and each of the two fires a trade.
TwoBuysTwoSells ==
    \A cm \in Commodity : BuyBuySellSell(cm, <<FALSE, FALSE, TRUE, TRUE>>)

\* C14 as stated: two buys followed by two sells of the same commodity trade
\* on the first sell only, the second sell firing no trade.
TwoBuysTwoSellsFirstOnly ==
    \A cm \in Commodity : BuyBuySellSell(cm, <<FALSE, FALSE, TRUE, FALSE>>)

\* Two buys and two sells of ONION were consumed, both sells traded and the
\* counter is back at 0.
TwoBuysTwoSellsWitness ==
    /\ Msgs(processed) = <<[commodity |-> "Onion", operation |-> "Buy"],
                           [commodity |-> "Onion", operation |-> "Buy"],
                           [commodity |-> "Onion", operation |-> "Sell"],
                           [commodity |-> "Onion", operation |-> "Sell"]>>
    /\ processed[3].trade /\ processed[4].trade
    /\ events = <<"Onion", "Onion">>
    /\ orderbook = [c \in {"Onion"} |-> 0]

\* The handler of c returns in this step.
Returns(c) == status[c] = "Active" /\ status'[c] = "Closed"

\* C15: Closed is terminal: a handler returns only from select!, on the end of
\* the stream or on a read error, writing nothing as it does; from then on
\* its connection stays Closed, is written no line, has no line read, no
\* Intent enqueued and no event served, while the engine goes on storing
\* trades.
ClosedIsTerminal ==
    /\ [][\A c \in Conns :
            /\ Returns(c) =>
                  /\ pc[c] = "select"
                  /\ out'[c] = out[c]
                  /\ UNCHANGED <<mailbox, enq, events, orderbook>>
            /\ status[c] = "Closed" =>
                  /\ status'[c] = "Closed"
                  /\ out'[c] = out[c]
                  /\ rd'[c] = rd[c] /\ inq'[c] = inq[c]
                  /\ SentBy(c)' = SentBy(c)
                  /\ next'[c] = next[c] /\ got'[c] = got[c] /\ lagged'[c] = lagged[c]
                  /\ pc'[c] = pc[c]
          ]_vars
    /\ [](\A c \in Conns : status[c] = "Closed" => c \notin Receivers)

\* A trade was stored and delivered to the other connection after connection
\* x had returned; x was written nothing for it.
ClosedIsTerminalWitness ==
    \E x, y \in Conns :
        /\ status[x] = "Closed" /\ out[x] = <<>> /\ sub[x] = 0
        /\ status[y] = "Active"
        /\ events = <<"Apple">>
        /\ got[y] = <<1>>
        /\ out[y] = <<"ACK:APPLE", "ACK:APPLE", "TRADE:APPLE">>

\* The lines of connection c that have been answered, by an ACK or an error line.
Answered(c) == Len(AckLines(out[c])) + Len(SelectSeq(out[c], IsError))

\* The complete lines the client of c has written so far.
Written(c) == Len(rd[c]) + Len(inq[c])

\* Every line written by the client of an Active connection has been
\* answered, and every event stored since it subscribed has been written to
\* it, unless it lagged.
AllServed ==
    \A c \in Conns : status[c] = "Active" =>
        /\ Answered(c) = Written(c)
        /\ lagged[c] = <<>> => got[c] = [i \in 1..(Len(events) - sub[c]) |-> sub[c] + i]

CrossingRuleAtExtremes ==
    [][Consumes =>
        LET msg == Head(mailbox)
            cm == msg.commodity
            c == Counter(orderbook, cm)
            n == Counter(orderbook', cm)
        IN /\ engine' = "Running"
           /\ msg.operation = "Buy" =>
                /\ n > c /\ n - 1 = c
                /\ Outcome.trade <=> n <= 0
                /\ c = 2147483647 => ~Outcome.trade
           /\ msg.operation = "Sell" =>
                /\ n < c /\ n + 1 = c
                /\ Outcome.trade <=> n >= 0
                /\ c = -2147483647 - 1 => ~Outcome.trade
    ]_vars

\* A Buy was consumed at counter 2147483647 in a build without overflow
\* checks: the counter is now -2147483648 and a trade was stored.
CrossingRuleAtExtremesWitness ==
    /\ ~overflow_checks
    /\ Len(processed) = 1
    /\ processed[1].msg = [commodity |-> "Apple", operation |-> "Buy"]
    /\ processed[1].trade
    /\ orderbook = [c \in {"Apple"} |-> MinI32]
    /\ events = <<"Apple">>

\* Number of trades the engine has fired for commodity cm.
Fired(cm) ==
    Cardinality({i \in 1..Len(processed) :
        processed[i].msg.commodity = cm /\ processed[i].trade})

Min(a, b) == IF a <= b THEN a ELSE b

\* C18: in every reachable state and for every commodity, the number of
\* trades the engine has fired for it is the smaller of the number of Buys
\* and the number of Sells it has consumed for it, whatever their order.
TradesAreMatchedPairs ==
    \A cm \in Commodity : Fired(cm) = Min(Consumed("Buy", cm), Consumed("Sell", cm))

\* Sell, Buy, Buy, Sell of APPLE were consumed: the first Buy and the last
\* Sell fired a trade each.
TradesAreMatchedPairsWitness ==
    /\ Len(processed) = 4
    /\ \A i \in 1..4 : processed[i].msg.commodity = "Apple"
    /\ [i \in 1..4 |-> processed[i].msg.operation] = <<"Sell", "Buy", "Buy", "Sell">>
    /\ [i \in 1..4 |-> processed[i].trade] = <<FALSE, TRUE, FALSE, TRUE>>
    /\ Fired("Apple") = 2

\* The place in the output of c of its k-th ACK line, of its m-th TRADE line.
AckIndex(c, k) ==
    CHOOSE j \in 1..Len(out[c]) :
        IsAck(out[c][j]) /\ Len(AckLines(SubSeq(out[c], 1, j))) = k
TradeIndex(c, m) ==
    CHOOSE j \in 1..Len(out[c]) :
        IsTrade(out[c][j]) /\ Len(TradeLines(SubSeq(out[c], 1, j))) = m

\* The i-th Intent enqueued is the SentIndex(i)-th of its connection.
SentIndex(i) == Cardinality({j \in 1..i : enq[j].conn = enq[i].conn})

\* C19: on the connection whose Intent triggers a trade, the ACK line of
\* that Intent is written before the TRADE line of that trade: whenever the
\* TRADE line of a stored trade is in the output of the connection that sent
\* the triggering Intent, the ACK of that Intent is in it at an earlier place.
AckBeforeOwnTrade ==
    \A i \in 1..Len(processed) :
        processed[i].pos > 0 =>
            LET c == enq[i].conn
            IN \A m \in 1..Len(got[c]) :
                  got[c][m] = processed[i].pos =>
                      /\ Len(AckLines(out[c])) >= SentIndex(i)
                      /\ AckIndex(c, SentIndex(i)) < TradeIndex(c, m)

\* Connection y bought, connection c sold and so triggered the trade: c was
\* written the ACK of its sell and then the TRADE line.
AckBeforeOwnTradeWitness ==
    \E c, y \in Conns :
        /\ c # y
        /\ enq = <<[conn |-> y, msg |-> [commodity |-> "Apple", operation |-> "Buy"]],
                   [conn |-> c, msg |-> [commodity |-> "Apple", operation |-> "Sell"]]>>
        /\ Len(processed) = 2 /\ processed[2].pos = 1
        /\ out[c] = <<"ACK:APPLE", "TRADE:APPLE">>

\* C20: for every connection the TRADE lines written to it are, in order and
\* without repetition, events the engine stored after the connection
\* subscribed: the positions served increase strictly, lie after the
\* subscription point, each line names the commodity of its event, the events
\* stand in the channel in the order in which the engine fired them, and the
\* TRADE lines plus the losses reported by lag never exceed the trades fired
\* since the subscription.
TradesInOrder ==
    /\ \A c \in Conns :
          /\ \A i \in 1..Len(got[c]) : sub[c] < got[c][i] /\ got[c][i] <= Len(events)
          /\ \A i, j \in 1..Len(got[c]) : i < j => got[c][i] < got[c][j]
          /\ TradeLines(out[c]) = [i \in 1..Len(got[c]) |-> FormatTrade(events[got[c][i]])]
          /\ Len(TradeLines(out[c])) + SumSeq(lagged[c]) <= Len(events) - sub[c]
    /\ \A i, j \in StoredTrades : i < j => processed[i].pos < processed[j].pos
    /\ \A i \in StoredTrades : events[processed[i].pos] = processed[i].msg.commodity
    /\ Len(events) <= Cardinality({i \in 1..Len(processed) : processed[i].trade})

\* Connection 1 fell 18 events behind, lost the two oldest and was written
\* the other 16 in the order in which they fired.
TradesInOrderWitness ==
    /\ lagged[1] = <<2>>
    /\ got[1] = [i \in 1..16 |-> i + 2]
    /\ Len(TradeLines(out[1])) = 16
    /\ Len(events) = 18

====
